---- MODULE Spec2Model ----
(***************************************************************************)
(* RSS feed routes of crates/routes/src/feeds.rs.                          *)
(*                                                                         *)
(* One request is handled per behaviour: Init draws the request and the    *)
(* answers the collaborators (storage, identity resolver, access policy,   *)
(* permalink builder) give for it, and one action per route handler        *)
(* produces the response.  Strings built with format! are tuples of their  *)
(* parts; Option values are <<>> (None) and <<x>> (Some(x)).               *)
(***************************************************************************)
EXTENDS Integers, Sequences, FiniteSets, TLC

VARIABLES req, db, pc, resp, calls, fetched

vars == <<req, db, pc, resp, calls, fetched>>

-----------------------------------------------------------------------------
(* Bounds of the model *)

MaxPosts == 3
MaxOff == 1
MaxBad == 2
MaxLimit == 2
MaxInbox == 2

-----------------------------------------------------------------------------
(* Option, Result and text values *)

None == <<>>
Some(x) == <<x>>
Unwrap(o) == o[1]

Ok(v) == [ok |-> TRUE, val |-> v, err |-> ""]
Err(e) == [ok |-> FALSE, val |-> <<>>, err |-> e]

Md(t) == [fmt |-> "markdown", text |-> t]

\* markdown renderer: text -> html string
markdown_to_html(t) == [fmt |-> "html", text |-> t.text]

\* DateTime::to_rfc2822
to_rfc2822(t) == <<"rfc2822", t>>

\* str::starts_with on strings held as sequences of characters
starts_with(s, p) == Len(s) >= Len(p) /\ SubSeq(s, 1, Len(p)) = p

Min(a, b) == IF a <= b THEN a ELSE b

-----------------------------------------------------------------------------
(* Program constants *)

RSS_FETCH_LIMIT == 20

RSS_NAMESPACE == {<<"dc", "http://purl.org/dc/elements/1.1/">>,
                  <<"media", "http://search.yahoo.com/mrss/">>}

\* settings.get_protocol_and_hostname()
protocol_and_hostname == "https://lemmy.example"

\* PostSortType::Hot.to_string()
DefaultSort == "Hot"

\* the names PostSortType::from_str accepts
SortModes == {"Active", "Hot", "New", "Old", "Top"}

ImagePrefix == <<"i", "m", "a", "g", "e", "/">>
OctetStream == <<"a", "p", "p", "l", "i", "c", "a", "t", "i", "o", "n", "/",
                 "o", "c", "t", "e", "t", "-", "s", "t", "r", "e", "a", "m">>
ImagePng == <<"i", "m", "a", "g", "e", "/", "p", "n", "g">>
TextHtml == <<"t", "e", "x", "t", "/", "h", "t", "m", "l">>
ImagesZip == <<"i", "m", "a", "g", "e", "s", "/", "z", "i", "p">>

-----------------------------------------------------------------------------
(* Collaborators outside feeds.rs *)

\* PostSortType::from_str
PostSortType_from_str(s) == IF s \in SortModes THEN Ok(s) ELSE Err("InvalidParameter")

\* check_private_instance(local_user_view, local_site)
check_private_instance(local_user_view, local_site) ==
  IF local_user_view = None /\ local_site.private_instance
    THEN Err("InstanceIsPrivate")
    ELSE Ok(TRUE)

\* CommunityVisibility::can_view_without_login
can_view_without_login(visibility) == visibility \in {"Public", "Unlisted"}

\* Post::local_url(settings)
Post_local_url(post) ==
  IF post.local_url_ok
    THEN Ok(<<protocol_and_hostname, "/post/", post.id>>)
    ELSE Err("InvalidUrl")

\* Comment::local_url(settings)
Comment_local_url(comment) ==
  IF comment.local_url_ok
    THEN Ok(<<protocol_and_hostname, "/comment/", comment.id>>)
    ELSE Err("InvalidUrl")

\* Community::local_url(name, settings)
Community_local_url(community) ==
  IF community.local_url_ok
    THEN Ok(<<protocol_and_hostname, "/c/", community.name>>)
    ELSE Err("InvalidUrl")

\* PostQuery::list and PersonContentCombinedQuery::list: at most `limit`
\* records of the rows the query selects, in the query's order
Query_list(res, limit) ==
  IF res.ok
    THEN Ok(SubSeq(res.rows, 1, Min(IF limit < 0 THEN 0 ELSE limit, Len(res.rows))))
    ELSE Err("Upstream")

\* InboxCombinedQuery::list with the query's default page
InboxCombinedQuery_list(res) == IF res.ok THEN Ok(res.rows) ELSE Err("Upstream")

\* PersonContentCombinedView::to_post_view
to_post_view(f) == IF f.kind = "Post" THEN Some(f.view) ELSE None

-----------------------------------------------------------------------------
(* Stored records the collaborators return *)

Creator(k) ==
  IF k % 2 = 0
    THEN [name |-> "alice", ap_id |-> <<protocol_and_hostname, "/u/", "alice">>]
    ELSE [name |-> "bob", ap_id |-> <<protocol_and_hostname, "/u/", "bob">>]

\* url and url_content_type of a post, five kinds of post
UrlVariants ==
  << [url |-> None, url_content_type |-> None],
     [url |-> Some("https://ext.example/a"), url_content_type |-> None],
     [url |-> Some("https://ext.example/b.png"), url_content_type |-> Some(ImagePng)],
     [url |-> Some("https://ext.example/c.html"), url_content_type |-> Some(TextHtml)],
     [url |-> Some("https://ext.example/d.zip"), url_content_type |-> Some(ImagesZip)] >>

\* PostView number k: the optional fields vary with k so that every
\* combination of url kind, thumbnail and body occurs among 20 consecutive k
PostRow(k, post_ok, community_ok) ==
  LET uv == UrlVariants[(k % 5) + 1] IN
  [post |-> [id |-> k,
             name |-> <<"title ", k>>,
             url |-> uv.url,
             url_content_type |-> uv.url_content_type,
             thumbnail_url |-> IF (k \div 5) % 2 = 1
                                 THEN Some(<<"https://thumbs.example/", k>>)
                                 ELSE None,
             body |-> IF (k \div 10) % 2 = 1 THEN Some(Md(<<"body ", k>>)) ELSE None,
             score |-> k,
             comments |-> k % 3,
             published |-> 1000 - k,
             local_url_ok |-> post_ok],
   creator |-> Creator(k),
   community |-> [name |-> "foo",
                  title |-> "Foo Community",
                  ap_id |-> <<protocol_and_hostname, "/c/", "foo">>,
                  local_url_ok |-> community_ok]]

\* which record of a result has an entity whose permalink cannot be built
NoBad == [pos |-> 0, what |-> "none"]
BadChoices ==
  {NoBad} \cup {[pos |-> j, what |-> w] : j \in 1..MaxBad, w \in {"post", "community"}}

PostTable(n, off, bad) ==
  [i \in 1..n |-> PostRow(off + i,
                          ~(bad.pos = i /\ bad.what = "post"),
                          ~(bad.pos = i /\ bad.what = "community"))]

PostCounts == (0..MaxPosts) \cup {RSS_FETCH_LIMIT + 1}

ListErr == [ok |-> FALSE, rows |-> <<>>]
NoList == [ok |-> TRUE, rows |-> <<>>]

\* answers of PostQuery::list, before the limit
PostListResults ==
  {ListErr} \cup
  {[ok |-> TRUE, rows |-> PostTable(n, off, bad)] :
     n \in PostCounts, off \in 0..MaxOff, bad \in BadChoices}

\* answers of PersonContentCombinedQuery::list, before the limit: posts,
\* and posts with every third record a comment
ContentTable(n, off, bad, mixed) ==
  [i \in 1..n |->
     IF mixed /\ (off + i) % 3 = 0
       THEN [kind |-> "Comment", view |-> [comment |-> [id |-> 500 + i]]]
       ELSE [kind |-> "Post", view |-> PostTable(n, off, bad)[i]]]

ContentResults ==
  {ListErr} \cup
  {[ok |-> TRUE, rows |-> ContentTable(n, off, bad, mixed)] :
     n \in PostCounts, off \in 0..MaxOff, bad \in BadChoices, mixed \in BOOLEAN}

InboxKinds == {"CommentReply", "CommentMention", "PostMention", "PrivateMessage"}

\* InboxCombinedView number i of the given kind
InboxRow(kind, i, url_ok) ==
  CASE kind \in {"CommentReply", "CommentMention"} ->
         [kind |-> kind,
          creator |-> Creator(i),
          comment |-> [id |-> 100 + i,
                       content |-> Md(<<"comment ", i>>),
                       published |-> 2000 - i,
                       local_url_ok |-> url_ok]]
    [] kind = "PostMention" ->
         [kind |-> kind,
          creator |-> Creator(i),
          post |-> [id |-> 200 + i,
                    body |-> IF i % 2 = 0 THEN Some(Md(<<"post body ", i>>)) ELSE None,
                    published |-> 2000 - i,
                    local_url_ok |-> url_ok]]
    [] kind = "PrivateMessage" ->
         [kind |-> kind,
          creator |-> Creator(i),
          private_message |-> [id |-> 300 + i,
                               content |-> Md(<<"message ", i>>),
                               published |-> 2000 - i]]

InboxTable(kinds, badpos) ==
  [i \in 1..Len(kinds) |-> InboxRow(kinds[i], i, badpos # i)]

KindSeqs == UNION {[1..n -> InboxKinds] : n \in 0..MaxInbox}

\* answers of InboxCombinedQuery::list
InboxResults ==
  {ListErr} \cup
  {[ok |-> TRUE, rows |-> InboxTable(ks, b)] : ks \in KindSeqs, b \in 0..MaxBad}

\* answers of SiteView::read_local
SiteErr == [ok |-> FALSE]
SiteViews ==
  {[ok |-> TRUE,
    site |-> [name |-> "Lemmy", description |-> d],
    local_site |-> [private_instance |-> p]] :
     d \in {None, Some(Md("site tagline"))}, p \in BOOLEAN}
SiteResults == {SiteErr} \cup SiteViews

\* answers of Community::read_from_name
CommunityLookups ==
  {Err("Upstream"), Ok(None)} \cup
  {Ok(Some([id |-> 7,
            name |-> "foo",
            ap_id |-> <<protocol_and_hostname, "/c/", "foo">>,
            visibility |-> v,
            description |-> d])) :
     v \in {"Public", "LocalOnlyPrivate"}, d \in {None, Some(Md("about foo"))}}

\* answers of Person::read_from_name
PersonLookups ==
  {Err("Upstream"), Ok(None),
   Ok(Some([id |-> 3, name |-> "alice",
            ap_id |-> <<protocol_and_hostname, "/u/", "alice">>]))}

\* answers of local_user_view_from_jwt
JwtResults ==
  {Err("NotLoggedIn")} \cup
  {Ok([person |-> [id |-> 3, name |-> "alice"],
       local_user |-> [show_bot_accounts |-> b]]) : b \in {TRUE}}

NoLookup == Ok(None)

-----------------------------------------------------------------------------
(* Query parameters *)

\* sort_type falling back to the default on a name that does not parse
sort_type_lenient(params) ==
  LET sort_query == IF params.sort = None THEN DefaultSort ELSE Unwrap(params.sort)
      parsed == PostSortType_from_str(sort_query)
  IN  IF parsed.ok THEN parsed ELSE Ok(DefaultSort)

\* Params::sort_type
sort_type(params) ==
  LET sort_query == IF params.sort = None THEN DefaultSort ELSE Unwrap(params.sort)
  IN  PostSortType_from_str(sort_query)

\* get_limit dropping the request's limit
get_limit_fixed(params) == RSS_FETCH_LIMIT

\* Params::get_limit
get_limit(params) ==
  IF params.limit = None THEN RSS_FETCH_LIMIT ELSE Unwrap(params.limit)

-----------------------------------------------------------------------------
(* Items *)

\* rss::Item with its Default fields
DefaultItem ==
  [title |-> None, link |-> None, description |-> None, author |-> None,
   categories |-> <<>>, comments |-> None, enclosure |-> None, guid |-> None,
   pub_date |-> None, extensions |-> {}, dublin_core_ext |-> None]

\* build_item with the guid taken from the site's inbox page
build_item_inbox_guid(creator_name, published, url, content) ==
  Ok([title |-> Some(<<"Reply from ", creator_name>>),
      link |-> Some(url),
      description |-> Some(markdown_to_html(content)),
      author |-> Some(<<"/u/", creator_name, " <a href=\"",
                        <<protocol_and_hostname, "/u/", creator_name>>,
                        "\">(link)</a>">>),
      categories |-> <<>>,
      comments |-> Some(url),
      enclosure |-> None,
      guid |-> Some([permalink |-> TRUE, value |-> <<protocol_and_hostname, "/inbox">>]),
      pub_date |-> Some(to_rfc2822(published)),
      extensions |-> {},
      dublin_core_ext |-> None])

\* build_item
build_item(creator_name, published, url, content) ==
  LET guid == Some([permalink |-> TRUE, value |-> url])
      description == Some(markdown_to_html(content))
  IN  Ok([DefaultItem EXCEPT
            !.title = Some(<<"Reply from ", creator_name>>),
            !.author = Some(<<"/u/", creator_name, " <a href=\"",
                              <<protocol_and_hostname, "/u/", creator_name>>,
                              "\">(link)</a>">>),
            !.pub_date = Some(to_rfc2822(published)),
            !.comments = Some(url),
            !.link = Some(url),
            !.guid = guid,
            !.description = description])

\* the url a private message item links to
inbox_url == <<protocol_and_hostname, "/inbox">>

\* the closure of create_reply_and_mention_items: one inbox record to an item
reply_item(r) ==
  CASE r.kind \in {"CommentReply", "CommentMention"} ->
         LET url == Comment_local_url(r.comment) IN
         IF ~url.ok THEN Err(url.err)
         ELSE build_item(r.creator.name, r.comment.published, url.val, r.comment.content)
    [] r.kind = "PostMention" ->
         LET mention_url == Post_local_url(r.post) IN
         IF ~mention_url.ok THEN Err(mention_url.err)
         ELSE build_item(r.creator.name, r.post.published, mention_url.val,
                         IF r.post.body = None THEN Md("") ELSE Unwrap(r.post.body))
    [] r.kind = "PrivateMessage" ->
         build_item(r.creator.name, r.private_message.published, inbox_url,
                    r.private_message.content)

\* create_reply_and_mention_items: collect into LemmyResult<Vec<Item>>
create_reply_and_mention_items(inbox) ==
  IF \E i \in 1..Len(inbox) : ~reply_item(inbox[i]).ok
    THEN LET first == CHOOSE i \in 1..Len(inbox) :
                        /\ ~reply_item(inbox[i]).ok
                        /\ \A j \in 1..(i - 1) : reply_item(inbox[j]).ok
         IN  Err(reply_item(inbox[first]).err)
    ELSE Ok([i \in 1..Len(inbox) |-> reply_item(inbox[i]).val])

\* mime type of a url post
mime_type(post) ==
  IF post.url_content_type = None THEN OctetStream ELSE Unwrap(post.url_content_type)

\* link_html testing the prefix without its slash
link_html_loose(url, mime) ==
  IF starts_with(mime, <<"i", "m", "a", "g", "e">>)
    THEN [frag |-> "img_anchor", href |-> url, src |-> url]
    ELSE [frag |-> "link_anchor", href |-> url, text |-> url]

\* the anchor appended to the description of a url post
link_html(url, mime) ==
  IF starts_with(mime, ImagePrefix)
    THEN [frag |-> "img_anchor", href |-> url, src |-> url]
    ELSE [frag |-> "link_anchor", href |-> url, text |-> url]

\* the enclosure of a post
enclosure_opt(post) ==
  IF post.url = None THEN None
  ELSE Some([url |-> Unwrap(post.url), mime_type |-> mime_type(post), length |-> "0"])

\* the extension map of a post
post_extensions(post) ==
  IF post.thumbnail_url = None THEN {}
  ELSE {[ns |-> "media", key |-> "content", name |-> "media:content",
         attrs |-> [url |-> Unwrap(post.thumbnail_url), medium |-> "image"]]}

\* the description of a post: attribution, then the url anchor, then the body
post_description(p, post_url, community_url) ==
  <<[frag |-> "attribution",
     creator_ap_id |-> p.creator.ap_id,
     creator_name |-> p.creator.name,
     community_url |-> community_url,
     community_name |-> p.community.name,
     score |-> p.post.score,
     post_url |-> post_url,
     comments |-> p.post.comments]>>
  \o (IF p.post.url = None THEN <<>>
      ELSE <<link_html(Unwrap(p.post.url), mime_type(p.post))>>)
  \o (IF p.post.body = None THEN <<>>
      ELSE <<[frag |-> "html", html |-> markdown_to_html(Unwrap(p.post.body))]>>)

\* the body of the loop of create_post_items, after both urls are built
post_item(p, post_url, community_url) ==
  [DefaultItem EXCEPT
     !.title = Some(<<"[", p.community.name, "] ", p.post.name>>),
     !.pub_date = Some(to_rfc2822(p.post.published)),
     !.comments = Some(post_url),
     !.guid = Some([permalink |-> TRUE, value |-> post_url]),
     !.description = Some(post_description(p, post_url, community_url)),
     !.dublin_core_ext = Some([creators |-> <<p.creator.ap_id>>]),
     !.link = Some(post_url),
     !.extensions = post_extensions(p.post),
     !.enclosure = enclosure_opt(p.post),
     !.categories = <<[name |-> p.community.title, domain |-> Some(p.community.ap_id)]>>]

RECURSIVE post_items_loop(_, _)
post_items_loop(posts, items) ==
  IF Len(posts) = 0 THEN Ok(items)
  ELSE LET p == Head(posts)
           post_url == Post_local_url(p.post)
           community_url == Community_local_url(p.community)
       IN  IF ~post_url.ok THEN Err(post_url.err)
           ELSE IF ~community_url.ok THEN Err(community_url.err)
           ELSE post_items_loop(Tail(posts),
                                Append(items, post_item(p, post_url.val, community_url.val)))

\* create_post_items leaving out the posts whose urls cannot be built
RECURSIVE post_items_skipping(_, _)
post_items_skipping(posts, items) ==
  IF Len(posts) = 0 THEN Ok(items)
  ELSE LET p == Head(posts)
           post_url == Post_local_url(p.post)
           community_url == Community_local_url(p.community)
       IN  IF ~post_url.ok \/ ~community_url.ok
             THEN post_items_skipping(Tail(posts), items)
             ELSE post_items_skipping(Tail(posts),
                    Append(items, post_item(p, post_url.val, community_url.val)))

create_post_items_skipping(posts) == post_items_skipping(posts, <<>>)

\* create_post_items putting each item in front of the earlier ones
RECURSIVE post_items_prepending(_, _)
post_items_prepending(posts, items) ==
  IF Len(posts) = 0 THEN Ok(items)
  ELSE LET p == Head(posts)
           post_url == Post_local_url(p.post)
           community_url == Community_local_url(p.community)
       IN  IF ~post_url.ok THEN Err(post_url.err)
           ELSE IF ~community_url.ok THEN Err(community_url.err)
           ELSE post_items_prepending(Tail(posts),
                  <<post_item(p, post_url.val, community_url.val)>> \o items)

create_post_items_prepending(posts) == post_items_prepending(posts, <<>>)

\* create_post_items
create_post_items(posts) == post_items_loop(posts, <<>>)

-----------------------------------------------------------------------------
(* Feed builders.  Each returns the channel or the error, with the         *)
(* collaborator calls it made, in order, and the records the content query *)
(* returned.                                                               *)

Call(op) == [op |-> op, limit |-> None]
QueryCall(op, limit) == [op |-> op, limit |-> Some(limit)]

Built(channel, cs, records) ==
  [ok |-> TRUE, channel |-> Some(channel), err |-> "", calls |-> cs, fetched |-> records]
Failed(e, cs, records) ==
  [ok |-> FALSE, channel |-> None, err |-> e, calls |-> cs, fetched |-> records]

\* rss::Channel with its Default fields
Channel(title, link, items) ==
  [namespaces |-> RSS_NAMESPACE, title |-> title, link |-> link, items |-> items,
   description |-> None]

\* Channel::set_description
set_description(channel, text) == [channel EXCEPT !.description = Some(text)]

\* the gate left out
anonymous_gate_open(site_view) == Ok(TRUE)

\* the private-instance gate of the routes that carry no credential
anonymous_gate(site_view) == check_private_instance(None, site_view.local_site)

\* the private-instance gate of the routes that carry a credential
identity_gate(local_user, site_view) ==
  check_private_instance(Some(local_user), site_view.local_site)

\* the visibility test left out
community_hidden_never(community) == FALSE

\* the visibility test of get_feed_community
community_hidden(community) == ~can_view_without_login(community.visibility)

\* the description of the all and local channels
feed_data_description(channel, site) ==
  IF site.description = None THEN channel
  ELSE set_description(channel, Unwrap(site.description))

\* get_feed_data
get_feed_data(d, listing_type, sort, limit) ==
  LET c1 == <<Call("SiteView::read_local")>> IN
  IF ~d.site.ok THEN Failed("Upstream", c1, <<>>)
  ELSE
  LET site_view == d.site
      c2 == Append(c1, Call("check_private_instance")) IN
  IF ~anonymous_gate(site_view).ok THEN Failed("InstanceIsPrivate", c2, <<>>)
  ELSE
  LET c3 == Append(c2, QueryCall("PostQuery::list", limit))
      posts == Query_list(d.posts, limit) IN
  IF ~posts.ok THEN Failed(posts.err, c3, <<>>)
  ELSE
  LET items == create_post_items(posts.val) IN
  IF ~items.ok THEN Failed(items.err, c3, posts.val)
  ELSE
  Built(feed_data_description(
          Channel(<<site_view.site.name, " - ", listing_type>>,
                  <<protocol_and_hostname>>, items.val),
          site_view.site),
        c3, posts.val)

\* the posts of the person's content: filter_map(to_post_view)
content_posts(content) ==
  LET keep == SelectSeq(content, LAMBDA f : to_post_view(f) # None)
  IN  [i \in 1..Len(keep) |-> Unwrap(to_post_view(keep[i]))]

\* get_feed_user
get_feed_user(d, limit, user_name) ==
  LET c1 == <<Call("SiteView::read_local")>> IN
  IF ~d.site.ok THEN Failed("Upstream", c1, <<>>)
  ELSE
  LET site_view == d.site
      c2 == Append(c1, Call("Person::read_from_name")) IN
  IF ~d.person.ok THEN Failed(d.person.err, c2, <<>>)
  ELSE IF d.person.val = None THEN Failed("NotFound", c2, <<>>)
  ELSE
  LET person == Unwrap(d.person.val)
      c3 == Append(c2, Call("check_private_instance")) IN
  IF ~anonymous_gate(site_view).ok THEN Failed("InstanceIsPrivate", c3, <<>>)
  ELSE
  LET c4 == Append(c3, QueryCall("PersonContentCombinedQuery::list", limit))
      content == Query_list(d.content, limit) IN
  IF ~content.ok THEN Failed(content.err, c4, <<>>)
  ELSE
  LET posts == content_posts(content.val)
      items == create_post_items(posts) IN
  IF ~items.ok THEN Failed(items.err, c4, content.val)
  ELSE
  Built(Channel(<<site_view.site.name, " - ", person.name>>, person.ap_id, items.val),
        c4, content.val)

\* the description of the community channel
community_description(channel, community) ==
  IF community.description = None THEN channel
  ELSE set_description(channel, markdown_to_html(Unwrap(community.description)))

\* get_feed_community
get_feed_community(d, sort, limit, community_name) ==
  LET c1 == <<Call("SiteView::read_local")>> IN
  IF ~d.site.ok THEN Failed("Upstream", c1, <<>>)
  ELSE
  LET site_view == d.site
      c2 == Append(c1, Call("Community::read_from_name")) IN
  IF ~d.community.ok THEN Failed(d.community.err, c2, <<>>)
  ELSE IF d.community.val = None THEN Failed("NotFound", c2, <<>>)
  ELSE
  LET community == Unwrap(d.community.val) IN
  IF community_hidden(community) THEN Failed("NotFound", c2, <<>>)
  ELSE
  LET c3 == Append(c2, Call("check_private_instance")) IN
  IF ~anonymous_gate(site_view).ok THEN Failed("InstanceIsPrivate", c3, <<>>)
  ELSE
  LET c4 == Append(c3, QueryCall("PostQuery::list", limit))
      posts == Query_list(d.posts, limit) IN
  IF ~posts.ok THEN Failed(posts.err, c4, <<>>)
  ELSE
  LET items == create_post_items(posts.val) IN
  IF ~items.ok THEN Failed(items.err, c4, posts.val)
  ELSE
  Built(community_description(
          Channel(<<site_view.site.name, " - ", community.name>>,
                  community.ap_id, items.val),
          community),
        c4, posts.val)

\* the description of the front channel
front_description(channel, site) ==
  IF site.description = None THEN channel
  ELSE set_description(channel, markdown_to_html(Unwrap(site.description)))

\* get_feed_front
get_feed_front(d, sort, limit, jwt) ==
  LET c1 == <<Call("SiteView::read_local")>> IN
  IF ~d.site.ok THEN Failed("Upstream", c1, <<>>)
  ELSE
  LET site_view == d.site
      c2 == Append(c1, Call("local_user_view_from_jwt")) IN
  IF ~d.local_user.ok THEN Failed(d.local_user.err, c2, <<>>)
  ELSE
  LET local_user == d.local_user.val
      c3 == Append(c2, Call("check_private_instance")) IN
  IF ~identity_gate(local_user, site_view).ok THEN Failed("InstanceIsPrivate", c3, <<>>)
  ELSE
  LET c4 == Append(c3, QueryCall("PostQuery::list", limit))
      posts == Query_list(d.posts, limit) IN
  IF ~posts.ok THEN Failed(posts.err, c4, <<>>)
  ELSE
  LET items == create_post_items(posts.val) IN
  IF ~items.ok THEN Failed(items.err, c4, posts.val)
  ELSE
  Built(front_description(
          Channel(<<site_view.site.name, " - ", "Subscribed">>,
                  <<protocol_and_hostname>>, items.val),
          site_view.site),
        c4, posts.val)

\* the description of the inbox channel
inbox_description(channel, site) ==
  IF site.description = None THEN channel
  ELSE set_description(channel, Unwrap(site.description))

\* get_feed_inbox
get_feed_inbox(d, jwt) ==
  LET c1 == <<Call("SiteView::read_local")>> IN
  IF ~d.site.ok THEN Failed("Upstream", c1, <<>>)
  ELSE
  LET site_view == d.site
      c2 == Append(c1, Call("local_user_view_from_jwt")) IN
  IF ~d.local_user.ok THEN Failed(d.local_user.err, c2, <<>>)
  ELSE
  LET local_user == d.local_user.val
      c3 == Append(c2, Call("check_private_instance")) IN
  IF ~identity_gate(local_user, site_view).ok THEN Failed("InstanceIsPrivate", c3, <<>>)
  ELSE
  LET c4 == Append(c3, Call("InboxCombinedQuery::list"))
      inbox == InboxCombinedQuery_list(d.inbox) IN
  IF ~inbox.ok THEN Failed(inbox.err, c4, <<>>)
  ELSE
  LET items == create_reply_and_mention_items(inbox.val) IN
  IF ~items.ok THEN Failed(items.err, c4, inbox.val)
  ELSE
  Built(inbox_description(
          Channel(<<site_view.site.name, " - ", "Inbox">>, inbox_url, items.val),
          site_view.site),
        c4, inbox.val)

-----------------------------------------------------------------------------
(* Route handlers: the HTTP response of a request *)

Response(status, channel, error) == [status |-> status, channel |-> channel, error |-> error]

Handled(response, cs, records) == [resp |-> response, calls |-> cs, fetched |-> records]

\* a LemmyError leaving get_all_feed or get_local_feed: the status is the one
\* LemmyError's ResponseError gives the error, never 200
LemmyErrorResponse(b) == Handled(Response("error", None, b.err), b.calls, b.fetched)

\* HttpResponse::Ok().content_type("application/rss+xml").body(rss)
OkResponse(b) == Handled(Response("200", b.channel, ""), b.calls, b.fetched)

\* ErrorBadRequest
BadRequest(e, cs, records) == Handled(Response("400", None, e), cs, records)

\* get_all_feed and get_local_feed
get_listing_feed(r, d, listing_type) ==
  LET sort == sort_type(r) IN
  IF ~sort.ok THEN BadRequest(sort.err, <<>>, <<>>)
  ELSE LET b == get_feed_data(d, listing_type, sort.val, get_limit(r))
       IN  IF b.ok THEN OkResponse(b) ELSE LemmyErrorResponse(b)

get_all_feed(r, d) == get_listing_feed(r, d, "All")

get_local_feed(r, d) == get_listing_feed(r, d, "Local")

\* the end of get_feed: map_err(ErrorBadRequest), then the response
feed_response(b) ==
  IF b.ok THEN OkResponse(b) ELSE BadRequest(b.err, b.calls, b.fetched)

\* get_feed
get_feed(r, d) ==
  CASE r.type = "u" -> feed_response(get_feed_user(d, get_limit(r), r.name))
    [] r.type = "c" ->
         LET sort == sort_type(r) IN
         IF ~sort.ok THEN BadRequest(sort.err, <<>>, <<>>)
         ELSE feed_response(get_feed_community(d, sort.val, get_limit(r), r.name))
    [] r.type = "front" ->
         LET sort == sort_type(r) IN
         IF ~sort.ok THEN BadRequest(sort.err, <<>>, <<>>)
         ELSE feed_response(get_feed_front(d, sort.val, get_limit(r), r.name))
    [] r.type = "inbox" -> feed_response(get_feed_inbox(d, r.name))
    [] OTHER -> BadRequest("wrong_type", <<>>, <<>>)

-----------------------------------------------------------------------------
(* Requests and the state machine *)

SortParams == {None, Some("New"), Some("bogus")}
LimitParams == {None} \cup {Some(l) : l \in 0..MaxLimit}
TypeParams == {"u", "c", "front", "inbox", "x"}

Requests ==
  {[route |-> rt, type |-> "", name |-> "", sort |-> s, limit |-> l] :
     rt \in {"/all.xml", "/local.xml"}, s \in SortParams, l \in LimitParams}
  \cup
  {[route |-> "/{type}/{name}.xml", type |-> t, name |-> "foo", sort |-> s, limit |-> l] :
     t \in TypeParams, s \in SortParams, l \in LimitParams}

\* the collaborators' answers a request can meet; the ones its route never
\* asks for are left empty
Worlds(r) ==
  LET World(site, community, person, local_user, posts, content, inbox) ==
        [site |-> site, community |-> community, person |-> person,
         local_user |-> local_user, posts |-> posts, content |-> content,
         inbox |-> inbox]
      NoUser == Err("NotLoggedIn")
  IN
  CASE r.route \in {"/all.xml", "/local.xml"} ->
         {World(s, NoLookup, NoLookup, NoUser, p, NoList, NoList) :
            s \in SiteResults, p \in PostListResults}
    [] r.type = "c" ->
         {World(s, c, NoLookup, NoUser, p, NoList, NoList) :
            s \in SiteResults, c \in CommunityLookups, p \in PostListResults}
    [] r.type = "u" ->
         {World(s, NoLookup, u, NoUser, NoList, c, NoList) :
            s \in SiteResults, u \in PersonLookups, c \in ContentResults}
    [] r.type = "front" ->
         {World(s, NoLookup, NoLookup, j, p, NoList, NoList) :
            s \in SiteResults, j \in JwtResults, p \in PostListResults}
    [] r.type = "inbox" ->
         {World(s, NoLookup, NoLookup, j, NoList, NoList, i) :
            s \in SiteResults, j \in JwtResults, i \in InboxResults}
    [] OTHER ->
         {World(s, NoLookup, NoLookup, NoUser, NoList, NoList, NoList) :
            s \in SiteResults}

NoResponse == Response("", None, "")

Init ==
  /\ req \in Requests
  /\ db \in Worlds(req)
  /\ pc = "received"
  /\ resp = NoResponse
  /\ calls = <<>>
  /\ fetched = <<>>

Respond(h) ==
  /\ resp' = h.resp
  /\ calls' = h.calls
  /\ fetched' = h.fetched
  /\ pc' = "responded"
  /\ UNCHANGED <<req, db>>

\* GET /feeds/all.xml
RouteAll ==
  /\ pc = "received"
  /\ req.route = "/all.xml"
  /\ Respond(get_all_feed(req, db))

\* GET /feeds/local.xml
RouteLocal ==
  /\ pc = "received"
  /\ req.route = "/local.xml"
  /\ Respond(get_local_feed(req, db))

\* GET /feeds/{type}/{name}.xml
RouteFeed ==
  /\ pc = "received"
  /\ req.route = "/{type}/{name}.xml"
  /\ Respond(get_feed(req, db))

Next == RouteAll \/ RouteLocal \/ RouteFeed

Spec == Init /\ [][Next]_vars

-----------------------------------------------------------------------------
(* Vocabulary of the properties *)

Responded == pc = "responded"

Emitted == Responded /\ resp.status = "200" /\ resp.channel # None

Items == Unwrap(resp.channel).items

FeedKind ==
  CASE req.route = "/all.xml" -> "All"
    [] req.route = "/local.xml" -> "Local"
    [] req.type = "c" -> "Community"
    [] req.type = "u" -> "User"
    [] req.type = "front" -> "Front"
    [] req.type = "inbox" -> "Inbox"
    [] OTHER -> "Unknown"

ContentQueries ==
  {"PostQuery::list", "PersonContentCombinedQuery::list", "InboxCombinedQuery::list"}

NoContentQuery == \A i \in 1..Len(calls) : calls[i].op \notin ContentQueries

ContentQueryIssued == \E i \in 1..Len(calls) : calls[i].op \in ContentQueries

SortInvalid == req.sort # None /\ Unwrap(req.sort) \notin SortModes

EffectiveLimit == IF req.limit = None THEN RSS_FETCH_LIMIT ELSE Unwrap(req.limit)

\* the rows the route's content query selects, before any limit
Stored ==
  CASE FeedKind \in {"All", "Local", "Community", "Front"} -> db.posts.rows
    [] FeedKind = "User" -> db.content.rows
    [] FeedKind = "Inbox" -> db.inbox.rows
    [] OTHER -> <<>>

\* the records items are built from: the fetched records, for the user feed
\* the post-type ones among them
PostTypeRecords ==
  LET keep == SelectSeq(fetched, LAMBDA f : f.kind = "Post")
  IN  [i \in 1..Len(keep) |-> keep[i].view]

Records == IF FeedKind = "User" THEN PostTypeRecords ELSE fetched

PermalinkFails(rec) ==
  IF FeedKind = "Inbox"
    THEN CASE rec.kind \in {"CommentReply", "CommentMention"} -> ~rec.comment.local_url_ok
           [] rec.kind = "PostMention" -> ~rec.post.local_url_ok
           [] OTHER -> FALSE
    ELSE ~rec.post.local_url_ok \/ ~rec.community.local_url_ok

Permalink(rec) ==
  IF FeedKind = "Inbox"
    THEN CASE rec.kind \in {"CommentReply", "CommentMention"} ->
                Comment_local_url(rec.comment).val
           [] rec.kind = "PostMention" -> Post_local_url(rec.post).val
           [] OTHER -> <<protocol_and_hostname, "/inbox">>
    ELSE Post_local_url(rec.post).val

Published(rec) ==
  IF FeedKind = "Inbox"
    THEN CASE rec.kind \in {"CommentReply", "CommentMention"} -> rec.comment.published
           [] rec.kind = "PostMention" -> rec.post.published
           [] OTHER -> rec.private_message.published
    ELSE rec.post.published

-----------------------------------------------------------------------------
(* Properties *)

\* C1 (as stated): on every feed route, all.xml, local.xml and the u, c,
\* front and inbox routes, a request whose sort parameter is present and is
\* no sort mode's name ends in a 400 response with no content query issued.
C1_InvalidSortRejectedOnEveryRoute ==
  (Responded /\ SortInvalid /\ FeedKind # "Unknown")
    => (resp.status = "400" /\ NoContentQuery)

\* C1 (amended): on all.xml, local.xml and the c and front routes, the
\* routes that read the sort parameter, a request whose sort parameter is
\* present and is no sort mode's name ends in a 400 response with no
\* content query issued.
C1_InvalidSortRejectedWhereRead ==
  (Responded /\ SortInvalid /\ FeedKind \in {"All", "Local", "Community", "Front"})
    => (resp.status = "400" /\ resp.channel = None /\ NoContentQuery)

\* a community request with an invalid sort that would otherwise have been
\* served was answered 400 before any collaborator was called
C1_Witness ==
  /\ Responded /\ SortInvalid /\ FeedKind = "Community"
  /\ db.site.ok /\ ~db.site.local_site.private_instance
  /\ db.community.ok /\ db.community.val # None
  /\ can_view_without_login(Unwrap(db.community.val).visibility)
  /\ db.posts.ok /\ Len(db.posts.rows) > 0
  /\ resp.status = "400" /\ calls = <<>>

\* C2 (as stated): for every feed kind, Inbox included, a request that ends
\* in a channel has at most EffectiveLimit items: the limit parameter when
\* present, 20 when absent.
C2_ItemsWithinLimitEveryKind ==
  Emitted => Len(Items) <= EffectiveLimit

\* C2 (amended): for the kinds All, Local, Community, User and Front, a
\* request that ends in a channel has at most EffectiveLimit items.
C2_ItemsWithinLimit ==
  (Emitted /\ FeedKind # "Inbox") => Len(Items) <= EffectiveLimit

\* a channel was emitted with exactly the default 20 items although the
\* query selects more records than that
C2_Witness ==
  /\ Emitted /\ FeedKind # "Inbox"
  /\ req.limit = None
  /\ Len(Stored) > RSS_FETCH_LIMIT
  /\ Len(Items) = RSS_FETCH_LIMIT

\* C3: in every emitted channel, post feed or inbox, the items built from
\* two distinct records have different guid values.
C3_GuidsDistinct ==
  Emitted =>
    \A i, j \in 1..Len(Items) : i # j => Items[i].guid # Items[j].guid

\* C4: on a private instance an anonymous request (all.xml, local.xml, the
\* community and user routes) ends in an error response, with no channel
\* and no content query issued.
C4_PrivateInstanceGate ==
  (/\ Responded
   /\ FeedKind \in {"All", "Local", "Community", "User"}
   /\ db.site.ok /\ db.site.local_site.private_instance)
    => (resp.status # "200" /\ resp.channel = None /\ NoContentQuery)

\* on a private instance a community request that passed every earlier
\* check stopped at the gate
C4_Witness ==
  /\ Responded /\ FeedKind = "Community" /\ ~SortInvalid
  /\ db.site.ok /\ db.site.local_site.private_instance
  /\ db.community.ok /\ db.community.val # None
  /\ can_view_without_login(Unwrap(db.community.val).visibility)
  /\ db.posts.ok /\ Len(db.posts.rows) > 0
  /\ resp.error = "InstanceIsPrivate" /\ resp.status = "400"
  /\ calls[Len(calls)].op = "check_private_instance"

\* C5: a community request whose name resolves to no community, or to one
\* that cannot be viewed without login, ends in a 400 response with no
\* channel and no post query.
C5_CommunityNotFound ==
  (/\ Responded /\ FeedKind = "Community"
   /\ db.community.ok
   /\ \/ db.community.val = None
      \/ ~can_view_without_login(Unwrap(db.community.val).visibility))
    => (resp.status = "400" /\ resp.channel = None /\ NoContentQuery)

\* a request for a hidden community, on a public instance with posts to
\* show, was answered 400 NotFound
C5_Witness ==
  /\ Responded /\ FeedKind = "Community" /\ ~SortInvalid
  /\ db.site.ok /\ ~db.site.local_site.private_instance
  /\ db.community.ok /\ db.community.val # None
  /\ ~can_view_without_login(Unwrap(db.community.val).visibility)
  /\ db.posts.ok /\ Len(db.posts.rows) > 0
  /\ resp.status = "400" /\ resp.error = "NotFound"

\* C6: if the permalink of any record handed to item construction cannot be
\* built (a post, its community, a comment or post of a notification), the
\* request ends in an error response and no channel is emitted.
C6_PermalinkFailureAborts ==
  (Responded /\ \E i \in 1..Len(Records) : PermalinkFails(Records[i]))
    => (resp.status # "200" /\ resp.channel = None)

\* the second record's permalink failed after the first one's was built,
\* and the request ended in an error
C6_Witness ==
  /\ Responded /\ ContentQueryIssued
  /\ Len(Records) >= 2
  /\ ~PermalinkFails(Records[1])
  /\ PermalinkFails(Records[2])
  /\ resp.status # "200" /\ resp.channel = None


\* the mime type the enclosure of a url post is to carry
DeclaredMime(post) ==
  IF post.url_content_type = None THEN OctetStream ELSE Unwrap(post.url_content_type)

DescriptionHas(item, fragment) ==
  \E j \in 1..Len(Unwrap(item.description)) : Unwrap(item.description)[j] = fragment

HasThumbnailExtension(item) ==
  \E e \in item.extensions : e.name = "media:content"

\* C7: the item of a post has an enclosure iff the post has a url; the
\* enclosure carries that url, length "0" and the declared content type or
\* application/octet-stream; the description has an <img> anchor for the
\* url exactly when that mime type starts with "image/" and a plain link
\* anchor otherwise; the thumbnail extension is there iff the post has a
\* thumbnail url.
C7_EnclosureAndAnchors ==
  (Emitted /\ FeedKind # "Inbox") =>
    \A i \in 1..Len(Items) :
      LET post == Records[i].post
          item == Items[i]
          url == Unwrap(post.url)
          img == [frag |-> "img_anchor", href |-> url, src |-> url]
          plain == [frag |-> "link_anchor", href |-> url, text |-> url]
          image == starts_with(DeclaredMime(post), ImagePrefix)
      IN  /\ (item.enclosure # None) <=> (post.url # None)
          /\ post.url # None =>
               /\ item.enclosure =
                    Some([url |-> url, mime_type |-> DeclaredMime(post), length |-> "0"])
               /\ DescriptionHas(item, img) <=> image
               /\ DescriptionHas(item, plain) <=> ~image
          /\ post.url = None =>
               \A j \in 1..Len(Unwrap(item.description)) :
                 Unwrap(item.description)[j].frag \notin {"img_anchor", "link_anchor"}
          /\ HasThumbnailExtension(item) <=> (post.thumbnail_url # None)

\* one channel holds an image post with enclosure and <img> anchor, a url
\* post whose type only resembles an image with a plain anchor, a post with
\* a thumbnail and no enclosure, and a post with an enclosure and no
\* thumbnail
C7_Witness ==
  /\ Emitted /\ FeedKind # "Inbox"
  /\ \E i \in 1..Len(Items) :
       /\ Items[i].enclosure # None
       /\ Unwrap(Items[i].enclosure).mime_type = ImagePng
       /\ \E j \in 1..Len(Unwrap(Items[i].description)) :
            Unwrap(Items[i].description)[j].frag = "img_anchor"
  /\ \E i \in 1..Len(Items) :
       /\ Items[i].enclosure # None
       /\ Unwrap(Items[i].enclosure).mime_type = ImagesZip
       /\ \E j \in 1..Len(Unwrap(Items[i].description)) :
            Unwrap(Items[i].description)[j].frag = "link_anchor"
  /\ \E i \in 1..Len(Items) :
       Items[i].enclosure = None /\ HasThumbnailExtension(Items[i])
  /\ \E i \in 1..Len(Items) :
       Items[i].enclosure # None /\ ~HasThumbnailExtension(Items[i])

\* C8: the item of every inbox record, of any of the four subtypes, is
\* titled "Reply from {creator_name}"; its link and its guid are the same
\* value, the permalink of the referenced comment or post, or "{base}/inbox"
\* for a private message.
C8_InboxItems ==
  (Emitted /\ FeedKind = "Inbox") =>
    /\ Len(Items) = Len(fetched)
    /\ \A i \in 1..Len(Items) :
         /\ Items[i].title = Some(<<"Reply from ", fetched[i].creator.name>>)
         /\ Items[i].link = Some(Permalink(fetched[i]))
         /\ Items[i].guid = Some([permalink |-> TRUE, value |-> Permalink(fetched[i])])

\* an inbox of one comment reply and one private message gave two items
\* with distinct links, the comment's permalink and the inbox page
C8_Witness ==
  /\ Emitted /\ FeedKind = "Inbox"
  /\ Len(fetched) = 2
  /\ fetched[1].kind = "CommentReply" /\ fetched[2].kind = "PrivateMessage"
  /\ Len(Items) = 2
  /\ Items[1].link # Items[2].link
  /\ Items[2].link = Some(<<protocol_and_hostname, "/inbox">>)

\* the description the claim gives each kind of channel a source for
DescriptionSource ==
  IF FeedKind = "Community" THEN Unwrap(db.community.val).description
  ELSE db.site.site.description

\* C9: the channel of a feed of kind All, Local, Front, Inbox (site
\* description) or Community (community description) has the
\* markdown-to-HTML rendering of that description when it is present, and
\* no description when it is absent.
C9_DescriptionRendered ==
  (Emitted /\ FeedKind \in {"All", "Local", "Front", "Inbox", "Community"}) =>
    Unwrap(resp.channel).description =
      IF DescriptionSource = None THEN None
      ELSE Some(markdown_to_html(Unwrap(DescriptionSource)))

\* C10: in every emitted channel the i-th item is built from the i-th
\* record the content query returned (for the user feed, the i-th post-type
\* record): none dropped, duplicated or reordered.
C10_ItemsFollowRecords ==
  Emitted =>
    /\ Len(Items) = Len(Records)
    /\ \A i \in 1..Len(Items) :
         /\ Items[i].pub_date = Some(to_rfc2822(Published(Records[i])))
         /\ Items[i].link = Some(Permalink(Records[i]))

\* a user feed whose content held a comment between posts gave one item
\* per post, in the content's order
C10_Witness ==
  /\ Emitted /\ FeedKind = "User"
  /\ Len(fetched) >= 3
  /\ Len(Records) < Len(fetched)
  /\ Len(Items) = Len(Records) /\ Len(Items) >= 2
  /\ Items[1].link # Items[2].link

====
